---- MODULE Spec2Model ----
(***************************************************************************)
(* A model of the wasm text processor: the three exported operations       *)
(* detect_high_entropy_patterns, extract_keywords and                      *)
(* extract_people_entities (src/src/lib.rs), the pattern matcher           *)
(* (src/src/pattern_matching.rs), the score aggregator                     *)
(* (src/src/scoring.rs) and the entity extractor                           *)
(* (src/src/entity_extraction.rs).                                         *)
(*                                                                         *)
(* An input text is a sequence of tokens.  A token is a word or the comma; *)
(* in the string the tokens stand for, every word but the first token is   *)
(* preceded by one space and a comma follows its predecessor directly.     *)
(* Utf8 gives the bytes of every token, so that offsets, slices, char      *)
(* boundaries, case and string order are computed on the UTF-8 encoding,   *)
(* as the Rust code computes them.  The regular expressions of the source  *)
(* are translated to patterns over tokens (see Pattern below).             *)
(*                                                                         *)
(* Numbers: a weight is kept in tenths (0.4 is 4), a score is the exact    *)
(* rational [num, den], a confidence of an entity is kept in hundredths.   *)
(***************************************************************************)
EXTENDS Integers, Sequences, FiniteSets, TLC

\* ------------------------------------------------------------------------
\* Bounds of the model
\* ------------------------------------------------------------------------

\* Tokens in an input text.
MaxWords == 4

\* ASCII letters in the middle of the long word Pad (see Utf8Pad).
PadLen == 44

\* Matches in a list handed to the score aggregator on its own (SpecScore).
MaxMatches == 3

\* ------------------------------------------------------------------------
\* UTF-8
\* ------------------------------------------------------------------------

\* The token that stands for the long word made of U+65E5, PadLen letters
\* "x" and U+672C: a word whose first and last characters take three bytes.
Pad == "~pad~"

Utf8Pad == <<230, 151, 165>> \o [i \in 1..PadLen |-> 120] \o <<230, 156, 172>>

\* The UTF-8 encoding of every string the model reads the bytes of: the
\* tokens of the input alphabets, their lower-case forms, and the words of
\* the pronoun and sentiment lexicons.
Utf8 ==
   (Pad :> Utf8Pad) @@
   ("my" :> <<109,121>>) @@
   ("papa" :> <<112,97,112,97>>) @@
   ("Papa" :> <<80,97,112,97>>) @@
   ("mom" :> <<109,111,109>>) @@
   ("My" :> <<77,121>>) @@
   ("Monday" :> <<77,111,110,100,97,121>>) @@
   ("monday" :> <<109,111,110,100,97,121>>) @@
   ("friend" :> <<102,114,105,101,110,100>>) @@
   ("John" :> <<74,111,104,110>>) @@
   ("john" :> <<106,111,104,110>>) @@
   ("," :> <<44>>) @@
   ("unknown" :> <<117,110,107,110,111,119,110>>) @@
   ("You" :> <<89,111,117>>) @@
   ("you" :> <<121,111,117>>) @@
   ("are" :> <<97,114,101>>) @@
   ("sure" :> <<115,117,114,101>>) @@
   ("lazy" :> <<108,97,122,121>>) @@
   ("always" :> <<97,108,119,97,121,115>>) @@
   ("it" :> <<105,116>>) @@
   ("awful" :> <<97,119,102,117,108>>) @@
   ("liar" :> <<108,105,97,114>>) @@
   ("he" :> <<104,101>>) @@
   ("him" :> <<104,105,109>>) @@
   ("his" :> <<104,105,115>>) @@
   ("himself" :> <<104,105,109,115,101,108,102>>) @@
   ("she" :> <<115,104,101>>) @@
   ("She" :> <<83,104,101>>) @@
   ("her" :> <<104,101,114>>) @@
   ("hers" :> <<104,101,114,115>>) @@
   ("herself" :> <<104,101,114,115,101,108,102>>) @@
   ("they" :> <<116,104,101,121>>) @@
   ("them" :> <<116,104,101,109>>) @@
   ("their" :> <<116,104,101,105,114>>) @@
   ("theirs" :> <<116,104,101,105,114,115>>) @@
   ("themselves" :> <<116,104,101,109,115,101,108,118,101,115>>) @@
   ("love" :> <<108,111,118,101>>) @@
   ("happy" :> <<104,97,112,112,121>>) @@
   ("grateful" :> <<103,114,97,116,101,102,117,108>>) @@
   ("appreciate" :> <<97,112,112,114,101,99,105,97,116,101>>) @@
   ("enjoy" :> <<101,110,106,111,121>>) @@
   ("like" :> <<108,105,107,101>>) @@
   ("wonderful" :> <<119,111,110,100,101,114,102,117,108>>) @@
   ("great" :> <<103,114,101,97,116>>) @@
   ("Great" :> <<71,114,101,97,116>>) @@
   ("amazing" :> <<97,109,97,122,105,110,103>>) @@
   ("fantastic" :> <<102,97,110,116,97,115,116,105,99>>) @@
   ("supportive" :> <<115,117,112,112,111,114,116,105,118,101>>) @@
   ("helpful" :> <<104,101,108,112,102,117,108>>) @@
   ("kind" :> <<107,105,110,100>>) @@
   ("caring" :> <<99,97,114,105,110,103>>) @@
   ("hate" :> <<104,97,116,101>>) @@
   ("angry" :> <<97,110,103,114,121>>) @@
   ("frustrated" :> <<102,114,117,115,116,114,97,116,101,100>>) @@
   ("annoyed" :> <<97,110,110,111,121,101,100>>) @@
   ("upset" :> <<117,112,115,101,116>>) @@
   ("disappointed" :> <<100,105,115,97,112,112,111,105,110,116,101,100>>) @@
   ("sad" :> <<115,97,100>>) @@
   ("hurt" :> <<104,117,114,116>>) @@
   ("betrayed" :> <<98,101,116,114,97,121,101,100>>) @@
   ("difficult" :> <<100,105,102,102,105,99,117,108,116>>) @@
   ("problematic" :> <<112,114,111,98,108,101,109,97,116,105,99>>) @@
   ("toxic" :> <<116,111,120,105,99>>) @@
   ("abusive" :> <<97,98,117,115,105,118,101>>)

Lexemes == DOMAIN Utf8

\* char::is_ascii_uppercase, is_ascii_lowercase on the first byte of a char.
IsUpperByte(b) == b >= 65 /\ b <= 90

IsLowerByte(b) == b >= 97 /\ b <= 122

\* A byte that continues a multi-byte character (10xxxxxx).
IsContinuationByte(b) == b >= 128 /\ b <= 191

\* A byte of a word character (\w): an ASCII letter, digit or underscore, or
\* a byte of a multi-byte character (those of the model are letters).
IsWordByte(b) ==
   \/ IsUpperByte(b)
   \/ IsLowerByte(b)
   \/ (b >= 48 /\ b <= 57)
   \/ b = 95
   \/ b >= 128

\* str::to_lowercase on the encoding: an ASCII capital becomes its small
\* letter; the multi-byte characters of the model have no case.
to_lowercase_bytes(bs) ==
   [i \in 1..Len(bs) |-> IF IsUpperByte(bs[i]) THEN bs[i] + 32 ELSE bs[i]]

\* The string with the given encoding.
StrOf(bs) == CHOOSE w \in Lexemes : Utf8[w] = bs

\* str::to_lowercase of every string of Lexemes, computed on its encoding.
LowerOf == [w \in Lexemes |-> StrOf(to_lowercase_bytes(Utf8[w]))]

\* str::to_lowercase of a token.
to_lowercase(w) == LowerOf[w]

\* str::len: the length in bytes.
ByteLen(w) == Len(Utf8[w])

\* The comma is the one token that is no word.
IsWordToken(w) == w /= ","

\* 1 when token i of the text is preceded by a space.
SpaceBefore(toks, i) == IF i > 1 /\ IsWordToken(toks[i]) THEN 1 ELSE 0

\* The byte offset at which token i starts, and the one at which it ends.
RECURSIVE TokEnd(_, _)
TokEnd(toks, i) ==
   IF i = 0 THEN 0
   ELSE TokEnd(toks, i - 1) + SpaceBefore(toks, i) + ByteLen(toks[i])

TokStart(toks, i) == TokEnd(toks, i - 1) + SpaceBefore(toks, i)

\* text.len()
TextLen(toks) == TokEnd(toks, Len(toks))

\* The bytes of the string the tokens stand for.
RECURSIVE Bytes(_)
Bytes(toks) ==
   IF toks = <<>> THEN <<>>
   ELSE LET n == Len(toks)
        IN  Bytes(SubSeq(toks, 1, n - 1))
               \o (IF SpaceBefore(toks, n) = 1 THEN <<32>> ELSE <<>>)
               \o Utf8[toks[n]]

\* str::is_char_boundary
is_char_boundary(bs, i) ==
   \/ i = 0
   \/ i = Len(bs)
   \/ (i > 0 /\ i < Len(bs) /\ ~IsContinuationByte(bs[i + 1]))

\* &s[from..to] of a string given by its bytes; the slice panics when an end
\* is out of range or inside a character.
SliceOk(bs, from, to) ==
   /\ from <= to
   /\ to <= Len(bs)
   /\ is_char_boundary(bs, from)
   /\ is_char_boundary(bs, to)

Slice(bs, from, to) == SubSeq(bs, from + 1, to)

\* ------------------------------------------------------------------------
\* Regular expressions over tokens
\* ------------------------------------------------------------------------

(***************************************************************************)
(* A Pattern is a sequence of elements, an element is                      *)
(* [kind, alts], alts is a sequence of phrases in the order the regular    *)
(* expression lists its alternatives, and a phrase is a sequence of terms. *)
(* A term is a literal word or AnyWord (\w+).  Between two terms stands    *)
(* the whitespace the expression asks for, which in a text of the model is *)
(* one space.  kind "one" is a group, "opt" a group followed by ?, "star"  *)
(* a group followed by *, "set" a group of single words, "gap" a run of    *)
(* any characters.  The alternatives are tried in order and ? and * are    *)
(* greedy, as in the regex crate's leftmost-first matching.                *)
(***************************************************************************)
AnyWord == "\\w+"

\* The term [A-Z][a-z]+: without (?i) a capital followed by small letters,
\* under (?i) two or more ASCII letters.
CapWord == "[A-Z][a-z]+"

One(alts) == [kind |-> "one", alts |-> alts]

Opt(alts) == [kind |-> "opt", alts |-> alts]

Star(alts) == [kind |-> "star", alts |-> alts]

\* .{0,max}: up to max characters of any kind, as many as possible.  In the
\* model it ends where a token starts.
Gap(max) == [kind |-> "gap", alts |-> <<>>, max |-> max]

\* (w1|w2|...): a group whose alternatives are single words; it matches one
\* token, the one that is among the words.
OneOf(words) == [kind |-> "set", alts |-> <<>>, words |-> words]

\* The strings [A-Z][a-z]+ matches whole, without and with (?i).
CapitalizedLexemes ==
   {w \in Lexemes :
       /\ Len(Utf8[w]) >= 2
       /\ IsUpperByte(Utf8[w][1])
       /\ \A i \in 2..Len(Utf8[w]) : IsLowerByte(Utf8[w][i])}

AsciiLetterLexemes ==
   {w \in Lexemes :
       /\ Len(Utf8[w]) >= 2
       /\ \A i \in 1..Len(Utf8[w]) :
             IsUpperByte(Utf8[w][i]) \/ IsLowerByte(Utf8[w][i])}

\* The number of characters of a string given by its bytes.
CharCount(bs) == Cardinality({i \in 1..Len(bs) : ~IsContinuationByte(bs[i])})

NoMatch == -1

\* Whether the token matches the term.  Under (?i) (ci) the token is
\* compared in lower case, and the literals of such a pattern are written
\* in lower case.
TermMatches(term, tok, ci) ==
   IF term = AnyWord THEN IsWordToken(tok)
   ELSE IF term = CapWord
   THEN tok \in (IF ci THEN AsciiLetterLexemes ELSE CapitalizedLexemes)
   ELSE (IF ci THEN to_lowercase(tok) ELSE tok) = term

\* Whether the phrase matches the tokens from position pos on.
PhraseAt(phrase, toks, pos, ci) ==
   /\ pos + Len(phrase) - 1 <= Len(toks)
   /\ \A j \in 1..Len(phrase) : TermMatches(phrase[j], toks[pos + j - 1], ci)

\* first unless it is NoMatch, otherwise the other.
OrElse(first, other) == IF first /= NoMatch THEN first ELSE other

\* The characters between token pos - 1 and token pos + n of the text.
GapChars(toks, pos, n) ==
   CharCount(Slice(Bytes(toks),
                   TokEnd(toks, pos - 1),
                   IF pos + n > Len(toks) THEN TextLen(toks)
                   ELSE TokStart(toks, pos + n)))

(***************************************************************************)
(* The backtracking matcher.  Match returns the position after the match   *)
(* of the elements k.. of the pattern from token pos on, or NoMatch: the   *)
(* first success in the order a backtracking matcher tries them.  In mode  *)
(* "seq" it starts element k (a set of words takes one token that is      *)
(* among them); in mode "alt" it tries the alternatives a.. of element k,  *)
(* each followed by the rest of the pattern, and when none is left skips   *)
(* the element if it is optional; in mode "gap" it lets the gap of element *)
(* k take a, a - 1, ..., 0 tokens, the longest run within the element's    *)
(* number of characters that lets the rest match.                          *)
(***************************************************************************)
RECURSIVE Match(_, _, _, _, _, _, _)
Match(mode, pat, k, a, toks, pos, ci) ==
   IF mode = "seq"
   THEN IF k > Len(pat) THEN pos
        ELSE IF pat[k].kind = "gap"
        THEN Match("gap", pat, k, Len(toks) + 1 - pos, toks, pos, ci)
        ELSE IF pat[k].kind = "set"
        THEN IF /\ pos <= Len(toks)
                /\ (IF ci THEN to_lowercase(toks[pos]) ELSE toks[pos])
                      \in pat[k].words
             THEN Match("seq", pat, k + 1, 1, toks, pos + 1, ci)
             ELSE NoMatch
        ELSE Match("alt", pat, k, 1, toks, pos, ci)
   ELSE IF mode = "alt"
   THEN IF a > Len(pat[k].alts)
        THEN IF pat[k].kind = "one" THEN NoMatch
             ELSE Match("seq", pat, k + 1, 1, toks, pos, ci)
        ELSE OrElse(IF ~PhraseAt(pat[k].alts[a], toks, pos, ci) THEN NoMatch
                    ELSE Match("seq", pat,
                               IF pat[k].kind = "star" THEN k ELSE k + 1, 1,
                               toks, pos + Len(pat[k].alts[a]), ci),
                    Match("alt", pat, k, a + 1, toks, pos, ci))
   ELSE IF a < 0 THEN NoMatch
        ELSE OrElse(IF GapChars(toks, pos, a) > pat[k].max THEN NoMatch
                    ELSE Match("seq", pat, k + 1, 1, toks, pos + a, ci),
                    Match("gap", pat, k, a - 1, toks, pos, ci))

\* The position after the match of the elements k.. of the pattern from
\* token pos on, or NoMatch.
MatchFrom(pat, k, toks, pos, ci) == Match("seq", pat, k, 1, toks, pos, ci)

\* <<from, e>> when a match from token from on ends before e, otherwise the
\* other.
MatchOrElse(from, e, other) == IF e /= NoMatch THEN <<from, e>> ELSE other

\* Regex::find from token position from on: <<first, next>>, the leftmost
\* match's first token and the position after its last, or <<0, 0>>.  A
\* match starts at a word.
RECURSIVE FindFrom(_, _, _, _)
FindFrom(pat, toks, from, ci) ==
   IF from > Len(toks) THEN <<0, 0>>
   ELSE MatchOrElse(from,
                    IF IsWordToken(toks[from])
                    THEN MatchFrom(pat, 1, toks, from, ci) ELSE NoMatch,
                    FindFrom(pat, toks, from + 1, ci))

\* Regex::find_iter: the successive non-overlapping matches; FindIterFrom
\* is given the first of them.
RECURSIVE FindIter(_, _, _, _)
FindIterFrom(m, pat, toks, ci) ==
   IF m[1] = 0 THEN <<>> ELSE <<m>> \o FindIter(pat, toks, m[2], ci)

FindIter(pat, toks, from, ci) ==
   FindIterFrom(FindFrom(pat, toks, from, ci), pat, toks, ci)

\* Match::start, Match::end and Match::as_str of a match <<first, next>>.
MatchStart(toks, m) == TokStart(toks, m[1])

MatchEnd(toks, m) == TokEnd(toks, m[2] - 1)

MatchStr(toks, m) == Slice(Bytes(toks), MatchStart(toks, m), MatchEnd(toks, m))

\* ------------------------------------------------------------------------
\* The pattern matcher (src/src/pattern_matching.rs)
\* ------------------------------------------------------------------------

\* The words over which the detection operation is called.
DetectAlphabet == {"You", "are", "sure", "lazy", "always", "it"}

(***************************************************************************)
(* all_patterns, the catalog in the order the clusters are chained.  The   *)
(* model keeps the rules that can match a text over DetectAlphabet, each   *)
(* with its place in the catalog; every other rule of the 121 needs a word *)
(* the alphabet does not have and adds no match to any text of the model.  *)
(* Every rule is compiled with (?i) in front.                              *)
(***************************************************************************)
all_patterns ==
   << \* \b(you('re|\'re| are| r))\s+(\w+\s+)*(so\s+)?(lazy|...|cheat)\b
      [rule |-> 1,
       pattern |->
          << One(<< <<"you're">>, <<"you", "are">>, <<"you", "r">> >>),
             Star(<< <<AnyWord>> >>),
             Opt(<< <<"so">> >>),
             OneOf({"lazy", "selfish", "stupid", "pathetic", "worthless",
                        "arrogant", "incompetent", "useless", "hypocrite",
                        "narcissist", "psychopath", "sociopath", "abuser",
                        "monster", "evil", "toxic", "poison", "parasite",
                        "fraud", "fake", "liar", "cheat"}) >>,
       pattern_type |-> "character_judgment", severity |-> "high", weight |-> 10],
      \* \byou\s+(\w+\s+)?(always|never|constantly|forever|eternally)\s+\w+
      [rule |-> 5,
       pattern |->
          << One(<< <<"you">> >>),
             Opt(<< <<AnyWord>> >>),
             OneOf({"always", "never", "constantly", "forever", "eternally"}),
             One(<< <<AnyWord>> >>) >>,
       pattern_type |-> "absolute_statement", severity |-> "high", weight |-> 9],
      \* \b(it|thing|creature|monster|beast|brute|animal)\b
      [rule |-> 11,
       pattern |->
          << OneOf({"it", "thing", "creature", "monster", "beast", "brute",
                        "animal"}) >>,
       pattern_type |-> "objectification", severity |-> "medium", weight |-> 8],
      \* are\s+you\s+(sure|certain|mad|upset)
      [rule |-> 52,
       pattern |->
          << One(<< <<"are", "you">> >>),
             OneOf({"sure", "certain", "mad", "upset"}) >>,
       pattern_type |-> "reassurance_seeking", severity |-> "low", weight |-> 4] >>

\* The weights of the whole catalog, in tenths: 0.4, 0.5, ..., 1.0.
CatalogWeights == {4, 5, 6, 7, 8, 9, 10}

\* The PatternMatch pushed for one occurrence of a rule.
PatternMatch(r, toks, m) ==
   [pattern_type |-> r.pattern_type,
    match_text |-> MatchStr(toks, m),
    position |-> MatchStart(toks, m),
    severity |-> r.severity,
    weight |-> r.weight]

\* Variant: a rule pushes its first occurrence only (find for find_iter).
first_match_only(r, toks) ==
   LET m == FindFrom(r.pattern, toks, 1, TRUE)
   IN  IF m[1] = 0 THEN <<>> ELSE <<PatternMatch(r, toks, m)>>

\* The inner loop of match_patterns: the matches one rule pushes.
RuleMatches(r, toks) ==
   LET ms == FindIter(r.pattern, toks, 1, TRUE)
   IN  [i \in 1..Len(ms) |-> PatternMatch(r, toks, ms[i])]

\* ------------------------------------------------------------------------
\* The score aggregator (src/src/scoring.rs)
\* ------------------------------------------------------------------------

\* matches.iter().map(|m| m.weight).sum(), in tenths.
RECURSIVE total_weight(_)
total_weight(ms) ==
   IF ms = <<>> THEN 0 ELSE ms[1].weight + total_weight(Tail(ms))

\* a < b for rationals with positive denominators.
RatLess(a, b) == a.num * b.den < b.num * a.den

Rat(n, d) == [num |-> n, den |-> d]

\* f64::min
RatMin(a, b) == IF RatLess(b, a) THEN b ELSE a

\* The damping coefficient 0.1, in tenths.
DampingTenths == 1

\* Variant: the count of the matches does not damp the score.
undamped_score(ms) == Rat(total_weight(ms), 10)

\* Variant: the damping coefficient is 0.5.
heavily_damped(ms) == Rat(total_weight(ms), 10 + Len(ms) * 5)

\* Variant: the sum is divided by the count of the matches.
average_weight(ms) == Rat(total_weight(ms), 10 * Len(ms))

\* total_weight / (1.0 + match_count * 0.1): with the weights in tenths,
\* both sides of the division are scaled by ten.
normalized_score(ms) == Rat(total_weight(ms), 10 + Len(ms) * DampingTenths)

\* Variant: the score without the cap at 1.0.
uncapped_score(ms) ==
   IF ms = <<>> THEN Rat(0, 1) ELSE normalized_score(ms)

\* Variant: the score whose early return for no matches is 1.0.
score_empty_is_one(ms) ==
   IF ms = <<>> THEN Rat(1, 1)
   ELSE RatMin(normalized_score(ms), Rat(1, 1))

calculate_text_score(ms) ==
   IF ms = <<>> THEN Rat(0, 1)
   ELSE RatMin(normalized_score(ms), Rat(1, 1))

\* ------------------------------------------------------------------------
\* Keyword extraction (src/src/lib.rs, extract_keywords)
\* ------------------------------------------------------------------------

\* The words over which the keyword operation is called.
KeywordAlphabet == {"you", "You", "lazy", "awful", "liar"}

\* keyword_patterns: three patterns \b(w1|w2|...)\b, compiled without (?i).
keyword_patterns ==
   << << OneOf({"you", "your", "always", "never", "constantly", "selfish",
                    "lazy", "stupid", "idiot", "hate", "blame", "fault"}) >>,
      << OneOf({"terrible", "awful", "horrible", "worthless", "useless",
                    "pathetic", "incompetent"}) >>,
      << OneOf({"manipulative", "narcissist", "abuser", "psycho",
                    "sociopath", "liar", "loser"}) >> >>

\* The inner loop of extract_keywords: cap.as_str().to_lowercase() for
\* every occurrence of one pattern.
PatternKeywords(pat, toks) ==
   LET ms == FindIter(pat, toks, 1, FALSE)
   IN  [i \in 1..Len(ms) |-> to_lowercase_bytes(MatchStr(toks, ms[i]))]

\* The order of String: the order of the byte sequences.
RECURSIVE StrLess(_, _)
StrLess(a, b) ==
   IF b = <<>> THEN FALSE
   ELSE IF a = <<>> THEN TRUE
   ELSE IF a[1] /= b[1] THEN a[1] < b[1]
   ELSE StrLess(Tail(a), Tail(b))

\* Variant: the list left in the order of the pushes.
unsorted(v) == v

\* Vec::sort: the elements in ascending order, equal ones in their order.
RECURSIVE insert_sorted(_, _)
insert_sorted(sorted, x) ==
   IF sorted = <<>> THEN <<x>>
   ELSE IF StrLess(x, sorted[1]) THEN <<x>> \o sorted
   ELSE <<sorted[1]>> \o insert_sorted(Tail(sorted), x)

RECURSIVE sort(_)
sort(v) ==
   IF v = <<>> THEN <<>>
   ELSE insert_sorted(sort(SubSeq(v, 1, Len(v) - 1)), v[Len(v)])

\* Vec::dedup: of every run of equal consecutive elements the first is kept.
RECURSIVE dedup(_)
dedup(v) ==
   IF Len(v) <= 1 THEN v
   ELSE LET init == dedup(SubSeq(v, 1, Len(v) - 1))
        IN  IF v[Len(v)] = init[Len(init)] THEN init
            ELSE Append(init, v[Len(v)])

\* ------------------------------------------------------------------------
\* The entity extractor (src/src/entity_extraction.rs)
\* ------------------------------------------------------------------------

\* The tokens over which the entity operation is called.
EntityAlphabet == {"my", "mom", "papa", "Papa", "John", ",", Pad}

\* Option<T>: None is the empty sequence, Some(x) the sequence of x alone.
None == <<>>

Some(x) == <<x>>

is_some(o) == o /= None

EXCLUDED_WORDS ==
   {
    "my", "the", "a", "an", "i", "me", "we", "you", "he", "she", "it",
    "they", "this", "that", "these", "those", "who", "what", "when",
    "where", "why", "how", "today", "yesterday", "tomorrow", "monday",
    "tuesday", "wednesday", "thursday", "friday", "saturday", "sunday",
    "january", "february", "march", "april", "may", "june", "july",
    "august", "september", "october", "november", "december", "just",
    "really", "very", "also", "too", "even", "still", "already",
    "talked", "said", "told", "asked", "called", "met", "saw", "went",
    "good", "great", "bad", "nice", "happy", "sad", "angry", "upset",
    "dinner", "lunch", "breakfast", "meeting", "conversation", "call",
    "text", "last", "next", "first", "new", "old", "other", "another" }

\* (?i)\bmy (?:alt|alt|...)\b
My(alts) == << One(<< <<"my">> >>), One(alts) >>

Rel(pattern, relationship, category) ==
   [pattern |-> pattern, relationship |-> relationship, category |-> category]

\* The one rule of another shape (rule 24); its words are matched as whole
\* tokens.
ExThenParent ==
   << One(<< <<"my">> >>),
      One(<< <<"ex">>, <<"ex-husband">>, <<"exhusband">>, <<"ex-wife">>,
             <<"exwife">> >>),
      Gap(20),
      One(<< <<"co-parent">>, <<"coparent">>, <<"parent">>, <<"custody">> >>) >>

(***************************************************************************)
(* RELATIONSHIP_PATTERNS, all 53 rules in the order of the catalog; the    *)
(* number before a rule is its place, the line is that of the source.  An  *)
(* alternative with an optional hyphen or letter is written out in both    *)
(* forms, and every literal is written in lower case ((?i)).               *)
(***************************************************************************)
RELATIONSHIP_PATTERNS ==
   <<
      \* 1 (line 58): (?i)\bmy (?:mom|mother|mommy|mama)\b
      Rel(My(<< <<"mom">>, <<"mother">>, <<"mommy">>, <<"mama">> >>),
          "mother", "family"),
      \* 2 (line 59): (?i)\bmy (?:dad|father|daddy|papa)\b
      Rel(My(<< <<"dad">>, <<"father">>, <<"daddy">>, <<"papa">> >>),
          "father", "family"),
      \* 3 (line 60): (?i)\bmy (?:parents?)\b
      Rel(My(<< <<"parents">>, <<"parent">> >>),
          "parent", "family"),
      \* 4 (line 61): (?i)\bmy (?:brother|bro)\b
      Rel(My(<< <<"brother">>, <<"bro">> >>),
          "brother", "family"),
      \* 5 (line 62): (?i)\bmy (?:sister|sis)\b
      Rel(My(<< <<"sister">>, <<"sis">> >>),
          "sister", "family"),
      \* 6 (line 63): (?i)\bmy (?:sibling)\b
      Rel(My(<< <<"sibling">> >>),
          "sibling", "family"),
      \* 7 (line 64): (?i)\bmy (?:son)\b
      Rel(My(<< <<"son">> >>),
          "son", "family"),
      \* 8 (line 65): (?i)\bmy (?:daughter)\b
      Rel(My(<< <<"daughter">> >>),
          "daughter", "family"),
      \* 9 (line 66): (?i)\bmy (?:kid|child)\b
      Rel(My(<< <<"kid">>, <<"child">> >>),
          "child", "family"),
      \* 10 (line 67): (?i)\bmy (?:grandma|grandmother|nana|granny)\b
      Rel(My(<< <<"grandma">>, <<"grandmother">>, <<"nana">>, <<"granny">> >>),
          "grandmother", "family"),
      \* 11 (line 68): (?i)\bmy (?:grandpa|grandfather|papa|gramps)\b
      Rel(My(<< <<"grandpa">>, <<"grandfather">>, <<"papa">>, <<"gramps">> >>),
          "grandfather", "family"),
      \* 12 (line 69): (?i)\bmy (?:aunt|auntie)\b
      Rel(My(<< <<"aunt">>, <<"auntie">> >>),
          "aunt", "family"),
      \* 13 (line 70): (?i)\bmy (?:uncle)\b
      Rel(My(<< <<"uncle">> >>),
          "uncle", "family"),
      \* 14 (line 71): (?i)\bmy (?:cousin)\b
      Rel(My(<< <<"cousin">> >>),
          "cousin", "family"),
      \* 15 (line 72): (?i)\bmy (?:niece)\b
      Rel(My(<< <<"niece">> >>),
          "niece", "family"),
      \* 16 (line 73): (?i)\bmy (?:nephew)\b
      Rel(My(<< <<"nephew">> >>),
          "nephew", "family"),
      \* 17 (line 76): (?i)\bmy (?:step-?mom|step-?mother|stepmom
      \*    |stepmother)\b
      Rel(My(<< <<"step-mom">>, <<"stepmom">>, <<"step-mother">>,
                <<"stepmother">>, <<"stepmom">>, <<"stepmother">> >>),
          "step_mother", "family"),
      \* 18 (line 77): (?i)\bmy (?:step-?dad|step-?father|stepdad
      \*    |stepfather)\b
      Rel(My(<< <<"step-dad">>, <<"stepdad">>, <<"step-father">>,
                <<"stepfather">>, <<"stepdad">>, <<"stepfather">> >>),
          "step_father", "family"),
      \* 19 (line 78): (?i)\bmy (?:mother-?in-?law|MIL)\b
      Rel(My(<< <<"mother-in-law">>, <<"mother-inlaw">>,
                <<"motherin-law">>, <<"motherinlaw">>, <<"mil">> >>),
          "mother_in_law", "family"),
      \* 20 (line 79): (?i)\bmy (?:father-?in-?law|FIL)\b
      Rel(My(<< <<"father-in-law">>, <<"father-inlaw">>,
                <<"fatherin-law">>, <<"fatherinlaw">>, <<"fil">> >>),
          "father_in_law", "family"),
      \* 21 (line 80): (?i)\bmy (?:brother-?in-?law|BIL)\b
      Rel(My(<< <<"brother-in-law">>, <<"brother-inlaw">>,
                <<"brotherin-law">>, <<"brotherinlaw">>, <<"bil">> >>),
          "brother_in_law", "family"),
      \* 22 (line 81): (?i)\bmy (?:sister-?in-?law|SIL)\b
      Rel(My(<< <<"sister-in-law">>, <<"sister-inlaw">>,
                <<"sisterin-law">>, <<"sisterinlaw">>, <<"sil">> >>),
          "sister_in_law", "family"),
      \* 23 (line 84): (?i)\bmy (?:co-?parent|coparent)\b
      Rel(My(<< <<"co-parent">>, <<"coparent">>, <<"coparent">> >>),
          "co_parent", "family"),
      \* 24 (line 85): (?i)\bmy (?:ex|ex-?husband
      \*    |ex-?wife).{0,20}(?:co-?parent|parent|custody)\b
      Rel(ExThenParent,
          "ex_spouse_co_parent", "family"),
      \* 25 (line 88): (?i)\bmy (?:husband|hubby)\b
      Rel(My(<< <<"husband">>, <<"hubby">> >>),
          "husband", "romantic"),
      \* 26 (line 89): (?i)\bmy (?:wife|wifey)\b
      Rel(My(<< <<"wife">>, <<"wifey">> >>),
          "wife", "romantic"),
      \* 27 (line 90): (?i)\bmy (?:spouse)\b
      Rel(My(<< <<"spouse">> >>),
          "spouse", "romantic"),
      \* 28 (line 91): (?i)\bmy (?:partner)\b
      Rel(My(<< <<"partner">> >>),
          "partner", "romantic"),
      \* 29 (line 92): (?i)\bmy (?:SO|significant other)\b
      Rel(My(<< <<"so">>, <<"significant", "other">> >>),
          "significant_other", "romantic"),
      \* 30 (line 93): (?i)\bmy (?:boyfriend|bf)\b
      Rel(My(<< <<"boyfriend">>, <<"bf">> >>),
          "boyfriend", "romantic"),
      \* 31 (line 94): (?i)\bmy (?:girlfriend|gf)\b
      Rel(My(<< <<"girlfriend">>, <<"gf">> >>),
          "girlfriend", "romantic"),
      \* 32 (line 95): (?i)\bmy (?:fiance|fianc\xe9)\b
      Rel(My(<< <<"fiance">>, <<"fianc\\u00e9">> >>),
          "fiance", "romantic"),
      \* 33 (line 96): (?i)\bmy (?:fiancee|fianc\xe9e)\b
      Rel(My(<< <<"fiancee">>, <<"fianc\\u00e9e">> >>),
          "fiancee", "romantic"),
      \* 34 (line 97): (?i)\bmy (?:ex)\b
      Rel(My(<< <<"ex">> >>),
          "ex_partner", "romantic"),
      \* 35 (line 98): (?i)\bmy (?:ex-?boyfriend|ex-?girlfriend|ex-?partner)\b
      Rel(My(<< <<"ex-boyfriend">>, <<"exboyfriend">>, <<"ex-girlfriend">>,
                <<"exgirlfriend">>, <<"ex-partner">>, <<"expartner">> >>),
          "ex_partner", "romantic"),
      \* 36 (line 99): (?i)\bmy (?:ex-?husband|ex-?wife|former spouse)\b
      Rel(My(<< <<"ex-husband">>, <<"exhusband">>, <<"ex-wife">>,
                <<"exwife">>, <<"former", "spouse">> >>),
          "ex_spouse", "romantic"),
      \* 37 (line 102): (?i)\bmy (?:best friend|bestie|BFF)\b
      Rel(My(<< <<"best", "friend">>, <<"bestie">>, <<"bff">> >>),
          "best_friend", "friend"),
      \* 38 (line 103): (?i)\bmy (?:close friend)\b
      Rel(My(<< <<"close", "friend">> >>),
          "close_friend", "friend"),
      \* 39 (line 104): (?i)\bmy (?:friend)\b
      Rel(My(<< <<"friend">> >>),
          "friend", "friend"),
      \* 40 (line 105): (?i)\bmy (?:roommate|flatmate|housemate)\b
      Rel(My(<< <<"roommate">>, <<"flatmate">>, <<"housemate">> >>),
          "roommate", "friend"),
      \* 41 (line 108): (?i)\bmy (?:boss|manager|supervisor)\b
      Rel(My(<< <<"boss">>, <<"manager">>, <<"supervisor">> >>),
          "boss", "professional"),
      \* 42 (line 109): (?i)\bmy (?:coworker|co-?worker|colleague)\b
      Rel(My(<< <<"coworker">>, <<"co-worker">>, <<"coworker">>,
                <<"colleague">> >>),
          "colleague", "professional"),
      \* 43 (line 110): (?i)\bmy (?:employee|direct report|team member)\b
      Rel(My(<< <<"employee">>, <<"direct", "report">>,
                <<"team", "member">> >>),
          "direct_report", "professional"),
      \* 44 (line 111): (?i)\bmy (?:mentor)\b
      Rel(My(<< <<"mentor">> >>),
          "mentor", "professional"),
      \* 45 (line 112): (?i)\bmy (?:mentee)\b
      Rel(My(<< <<"mentee">> >>),
          "mentee", "professional"),
      \* 46 (line 113): (?i)\bmy (?:client)\b
      Rel(My(<< <<"client">> >>),
          "client", "professional"),
      \* 47 (line 114): (?i)\bmy (?:teacher|professor|instructor)\b
      Rel(My(<< <<"teacher">>, <<"professor">>, <<"instructor">> >>),
          "teacher", "professional"),
      \* 48 (line 115): (?i)\bmy (?:student)\b
      Rel(My(<< <<"student">> >>),
          "student", "professional"),
      \* 49 (line 118): (?i)\bmy (?:therapist|counselor|psychologist
      \*    |psychiatrist)\b
      Rel(My(<< <<"therapist">>, <<"counselor">>, <<"psychologist">>,
                <<"psychiatrist">> >>),
          "therapist", "service_provider"),
      \* 50 (line 119): (?i)\bmy (?:doctor|physician|GP)\b
      Rel(My(<< <<"doctor">>, <<"physician">>, <<"gp">> >>),
          "doctor", "service_provider"),
      \* 51 (line 120): (?i)\bmy (?:coach)\b
      Rel(My(<< <<"coach">> >>),
          "coach", "service_provider"),
      \* 52 (line 123): (?i)\bmy (?:neighbor|neighbour)\b
      Rel(My(<< <<"neighbor">>, <<"neighbour">> >>),
          "neighbor", "other"),
      \* 53 (line 124): (?i)\bmy (?:landlord)\b
      Rel(My(<< <<"landlord">> >>),
          "landlord", "other")
   >>

\* ^\s*,?\s*([A-Z][a-z]+(?:\s+[A-Z][a-z]+)?)\b , matched where the
\* relationship match ends.
NAME_AFTER_RELATION ==
   << Opt(<< <<",">> >>), One(<< <<CapWord>> >>), Opt(<< <<CapWord>> >>) >>

\* \b([A-Z][a-z]+(?:\s+[A-Z][a-z]+)?)\b
CAPITALIZED_NAME == << One(<< <<CapWord>> >>), Opt(<< <<CapWord>> >>) >>

\* (?i)\b([A-Z][a-z]+(?:\s+[A-Z][a-z]+)?),?\s+(?:my|who is my|who's my)
\*    \s+(\w+(?:-\w+)?)\b , with n words in the name (capture 1); capture 2
\* is the last token of a match.
NAME_THEN_RELATION(n) ==
   << One(<< [i \in 1..n |-> CapWord] >>),
      Opt(<< <<",">> >>),
      One(<< <<"my">>, <<"who", "is", "my">>, <<"who's", "my">> >>),
      One(<< <<AnyWord>> >>) >>

HE_HIM_PATTERN == {"he", "him", "his", "himself"}

SHE_HER_PATTERN == {"she", "her", "hers", "herself"}

THEY_THEM_PATTERN == {"they", "them", "their", "theirs", "themselves"}

POSITIVE_SENTIMENT ==
   {"love", "happy", "grateful", "appreciate", "enjoy", "like", "wonderful",
    "great", "amazing", "fantastic", "supportive", "helpful", "kind", "caring"}

NEGATIVE_SENTIMENT ==
   {"hate", "angry", "frustrated", "annoyed", "upset", "disappointed", "sad",
    "hurt", "betrayed", "difficult", "problematic", "toxic", "abusive"}

\* Variant: the name as it is written, not in lower case.
name_as_written(name) == name

\* A name is the sequence of the tokens it is made of.
\* name.to_lowercase()
name_to_lowercase(name) == [i \in 1..Len(name) |-> to_lowercase(name[i])]

is_valid_name(word) ==
   LET bs == Bytes(word)
   IN  IF Len(bs) < 2 THEN FALSE
       ELSE IF Len(word) = 1 /\ to_lowercase(word[1]) \in EXCLUDED_WORDS
       THEN FALSE
       ELSE IsUpperByte(bs[1])

\* char::is_alphabetic for every character of the token.
IsAlphabetic(w) ==
   \A i \in 1..Len(Utf8[w]) :
      IsUpperByte(Utf8[w][i]) \/ IsLowerByte(Utf8[w][i]) \/ Utf8[w][i] >= 128

\* The words of the match <<first, next>> are its tokens.
extract_name_from_possessive_match(toks, m) ==
   LET words == SubSeq(toks, m[1], m[2] - 1)
   IN  IF Len(words) >= 2 /\ to_lowercase(words[1]) = "my"
       THEN IF ByteLen(words[2]) >= 2 /\ IsAlphabetic(words[2])
            THEN Some(<<words[2]>>)
            ELSE None
       ELSE None

\* The places where a maximal run of word bytes starts, and where the run
\* that starts at i ends.
WordStartsAt(bs, i) == IsWordByte(bs[i]) /\ (i = 1 \/ ~IsWordByte(bs[i - 1]))

RECURSIVE WordEnd(_, _)
WordEnd(bs, i) ==
   IF i < Len(bs) /\ IsWordByte(bs[i + 1]) THEN WordEnd(bs, i + 1) ELSE i

\* The encodings of the words of a lexicon.
LexiconBytes(lexicon) == {Utf8[w] : w \in lexicon}

HeHimBytes == LexiconBytes(HE_HIM_PATTERN)

SheHerBytes == LexiconBytes(SHE_HER_PATTERN)

TheyThemBytes == LexiconBytes(THEY_THEM_PATTERN)

PositiveBytes == LexiconBytes(POSITIVE_SENTIMENT)

NegativeBytes == LexiconBytes(NEGATIVE_SENTIMENT)

\* find_iter(context).count() for (?i)\b(w1|w2|...)\b : the words of the
\* context, a string given by its bytes, that are in the lexicon.
find_iter_count(lexiconBytes, context) ==
   Cardinality({i \in 1..Len(context) :
                   /\ WordStartsAt(context, i)
                   /\ to_lowercase_bytes(SubSeq(context, i, WordEnd(context, i)))
                         \in lexiconBytes})

\* Variant: a tie of the he and the she family goes to the he family.
he_on_tie(context) ==
   LET he_count == find_iter_count(HeHimBytes, context)
       she_count == find_iter_count(SheHerBytes, context)
       they_count == find_iter_count(TheyThemBytes, context)
   IN  IF he_count > 0 /\ he_count >= she_count /\ he_count > they_count
       THEN Some("he/him")
       ELSE IF she_count > 0 /\ she_count > he_count /\ she_count > they_count
       THEN Some("she/her")
       ELSE IF they_count > 0 THEN Some("they/them")
       ELSE None

\* Variant: the she family is not compared with the they family.
she_ignoring_they(context) ==
   LET he_count == find_iter_count(HeHimBytes, context)
       she_count == find_iter_count(SheHerBytes, context)
       they_count == find_iter_count(TheyThemBytes, context)
   IN  IF he_count > 0 /\ he_count > she_count /\ he_count > they_count
       THEN Some("he/him")
       ELSE IF she_count > 0 /\ she_count > he_count
       THEN Some("she/her")
       ELSE IF they_count > 0 THEN Some("they/them")
       ELSE None

detect_pronouns(context) ==
   LET he_count == find_iter_count(HeHimBytes, context)
       she_count == find_iter_count(SheHerBytes, context)
       they_count == find_iter_count(TheyThemBytes, context)
   IN  IF he_count > 0 /\ he_count > she_count /\ he_count > they_count
       THEN Some("he/him")
       ELSE IF she_count > 0 /\ she_count > he_count /\ she_count > they_count
       THEN Some("she/her")
       ELSE IF they_count > 0 THEN Some("they/them")
       ELSE None

\* Variant: a tie of the two counts goes to the positive side.
positive_on_tie(context) ==
   LET positive_count == find_iter_count(PositiveBytes, context)
       negative_count == find_iter_count(NegativeBytes, context)
   IN  IF positive_count >= negative_count /\ positive_count > 0
       THEN Some("positive")
       ELSE IF negative_count > positive_count /\ negative_count > 0
       THEN Some("negative")
       ELSE IF positive_count > 0 /\ negative_count > 0 THEN Some("mixed")
       ELSE None

detect_sentiment(context) ==
   LET positive_count == find_iter_count(PositiveBytes, context)
       negative_count == find_iter_count(NegativeBytes, context)
   IN  IF positive_count > negative_count /\ positive_count > 0
       THEN Some("positive")
       ELSE IF negative_count > positive_count /\ negative_count > 0
       THEN Some("negative")
       ELSE IF positive_count > 0 /\ negative_count > 0 THEN Some("mixed")
       ELSE None

\* str::trim of a string given by its bytes (its whitespace is the space).
trim(bs) ==
   LET ink == {i \in 1..Len(bs) : bs[i] /= 32}
   IN  IF ink = {} THEN <<>>
       ELSE SubSeq(bs, CHOOSE i \in ink : \A j \in ink : i <= j,
                       CHOOSE i \in ink : \A j \in ink : j <= i)

\* The tokens of the text that lie whole within the bytes from..to.
ContextTokens(toks, from, to) ==
   LET in == {i \in 1..Len(toks) :
                 TokStart(toks, i) >= from /\ TokEnd(toks, i) <= to}
   IN  IF in = {} THEN <<>>
       ELSE SubSeq(toks, CHOOSE i \in in : \A j \in in : i <= j,
                         CHOOSE i \in in : \A j \in in : j <= i)

\* str::split_whitespace of a run of tokens: a word with the commas that
\* follow it.
RECURSIVE split_whitespace(_)
split_whitespace(toks) ==
   IF toks = <<>> THEN <<>>
   ELSE LET n == Len(toks)
            init == split_whitespace(SubSeq(toks, 1, n - 1))
        IN  IF IsWordToken(toks[n]) \/ n = 1 THEN Append(init, <<toks[n]>>)
            ELSE [init EXCEPT ![Len(init)] = Append(@, toks[n])]

\* w.starts_with("my")
starts_with_my(w) ==
   LET bs == Bytes(w)
   IN  Len(bs) >= 2 /\ bs[1] = 109 /\ bs[2] = 121

\* The context is given by the tokens that lie whole within it.
find_best_name_in_context(context) ==
   LET caps == FindIter(CAPITALIZED_NAME, context, 1, FALSE)
       cand(i) == SubSeq(context, caps[i][1], caps[i][2] - 1)
       valid == {i \in 1..Len(caps) : is_valid_name(cand(i))}
       words == split_whitespace(context)
       my == {i \in 1..Len(words) : words[i] = <<"my">>}
       first_my == CHOOSE i \in my : \A j \in my : i <= j
   IN  IF valid /= {} THEN cand(CHOOSE i \in valid : \A j \in valid : i <= j)
       ELSE IF /\ \E i \in 1..Len(words) : starts_with_my(words[i])
               /\ my /= {}
               /\ first_my + 1 <= Len(words)
       THEN words[first_my + 1]
       ELSE <<"unknown">>

infer_relationship_from_word(word) ==
   IF word \in {"mom", "mother", "mama", "mommy"} THEN Some("mother")
   ELSE IF word \in {"dad", "father", "papa", "daddy"} THEN Some("father")
   ELSE IF word \in {"brother", "bro"} THEN Some("brother")
   ELSE IF word \in {"sister", "sis"} THEN Some("sister")
   ELSE IF word \in {"husband", "hubby"} THEN Some("husband")
   ELSE IF word \in {"wife", "wifey"} THEN Some("wife")
   ELSE IF word = "spouse" THEN Some("spouse")
   ELSE IF word = "partner" THEN Some("partner")
   ELSE IF word \in {"boyfriend", "bf"} THEN Some("boyfriend")
   ELSE IF word \in {"girlfriend", "gf"} THEN Some("girlfriend")
   ELSE IF word = "friend" THEN Some("friend")
   ELSE IF word \in {"boss", "manager"} THEN Some("boss")
   ELSE IF word \in {"coworker", "colleague"} THEN Some("colleague")
   ELSE IF word \in {"therapist", "counselor"} THEN Some("therapist")
   ELSE IF word \in {"doctor", "physician"} THEN Some("doctor")
   ELSE None

\* The bytes on either side of a match that make its context: of a
\* relationship match (first pass) and of a name match (second pass).
RelationshipWindow == 50

NameWindow == 30

\* The confidence of an entity of the first and of the second pass, in
\* hundredths.
RelationshipConfidence == 80

NameConfidence == 85

\* usize::saturating_sub
saturating_sub(a, b) == IF a >= b THEN a - b ELSE 0

\* Ord::min
min(a, b) == IF a <= b THEN a ELSE b

\* The ends of &text[context_start..context_end] around the bytes
\* first..last.
ContextWindow(toks, first, last, radius) ==
   [context_start |-> saturating_sub(first, radius),
    context_end |-> min(last + radius, TextLen(toks))]

\* NAME_AFTER_RELATION.captures(&text[match_end..]): capture 1 as an Option.
name_after(toks, m) ==
   LET e == MatchFrom(NAME_AFTER_RELATION, 1, toks, m[2], FALSE)
       first == IF toks[m[2]] = "," THEN m[2] + 1 ELSE m[2]
   IN  IF e = NoMatch THEN None ELSE Some(SubSeq(toks, first, e - 1))

\* Variant: the name after the phrase is not looked at.
possessive_name(toks, m, w) ==
   LET possessive == extract_name_from_possessive_match(toks, m)
   IN  IF is_some(possessive) THEN possessive[1]
       ELSE find_best_name_in_context(
               ContextTokens(toks, w.context_start, w.context_end))

\* The name the first pass gives the match m of a relationship rule.
relationship_name(toks, m, w) ==
   LET name_cap == name_after(toks, m)
       possessive == extract_name_from_possessive_match(toks, m)
   IN  IF is_some(name_cap) /\ is_valid_name(name_cap[1]) THEN name_cap[1]
       ELSE IF is_some(possessive) THEN possessive[1]
       ELSE find_best_name_in_context(
               ContextTokens(toks, w.context_start, w.context_end))

ExtractedEntity(name, hint, matched, context, confidence, position) ==
   [name |-> name,
    relationship_hint |-> hint,
    relationship_context |-> matched,
    pronouns |-> detect_pronouns(context),
    mention_context |-> trim(context),
    sentiment |-> detect_sentiment(context),
    confidence |-> confidence,
    position |-> position]

\* Variant: the position of the entity is the end of the match.
relationship_entity_at_end(rp, toks, m, w) ==
   ExtractedEntity(relationship_name(toks, m, w),
                   Some(rp.relationship),
                   MatchStr(toks, m),
                   Slice(Bytes(toks), w.context_start, w.context_end),
                   RelationshipConfidence,
                   MatchEnd(toks, m))

\* The entity of the first pass for the match m of the rule rp, in the
\* window w.
relationship_entity(rp, toks, m, w) ==
   ExtractedEntity(relationship_name(toks, m, w),
                   Some(rp.relationship),
                   MatchStr(toks, m),
                   Slice(Bytes(toks), w.context_start, w.context_end),
                   RelationshipConfidence,
                   MatchStart(toks, m))

\* A capture of NAME_THEN_RELATION: the name is the tokens first..
\* first + words - 1, the relation word the token next - 1.
NoCapture == [first |-> 0, words |-> 0, next |-> 0]

\* The match that starts at token i: the name takes a second word when the
\* rest of the expression then matches.
CaptureAt(toks, i) ==
   LET two == MatchFrom(NAME_THEN_RELATION(2), 1, toks, i, TRUE)
       one == MatchFrom(NAME_THEN_RELATION(1), 1, toks, i, TRUE)
   IN  IF two /= NoMatch THEN [first |-> i, words |-> 2, next |-> two]
       ELSE IF one /= NoMatch THEN [first |-> i, words |-> 1, next |-> one]
       ELSE NoCapture

\* captures_iter: the next capture from token position from on.
RECURSIVE NextCapture(_, _)
NextCapture(toks, from) ==
   IF from > Len(toks) THEN NoCapture
   ELSE LET c == CaptureAt(toks, from)
        IN  IF c /= NoCapture THEN c ELSE NextCapture(toks, from + 1)

CaptureName(toks, cap) == SubSeq(toks, cap.first, cap.first + cap.words - 1)

\* The window of the second pass: from the start of the name to the end of
\* the relation word.
NameContextWindow(toks, cap) ==
   ContextWindow(toks, TokStart(toks, cap.first), TokEnd(toks, cap.next - 1),
                 NameWindow)

\* The entity of the second pass for a capture, in the window w.
name_entity(toks, cap, w) ==
   ExtractedEntity(CaptureName(toks, cap),
                   infer_relationship_from_word(to_lowercase(toks[cap.next - 1])),
                   MatchStr(toks, <<cap.first, cap.next>>),
                   Slice(Bytes(toks), w.context_start, w.context_end),
                   NameConfidence,
                   TokStart(toks, cap.first))

\* Variant: the set of an earlier call is kept.
kept_processed_names(earlier) == earlier

\* HashSet::new() for processed_names at the start of a call, whatever an
\* earlier call left.
new_processed_names(earlier) == {}

\* Variant: an entity whose name was seen takes the place of the one that
\* bears the name.
push_replacing(entities, processed, e) ==
   IF to_lowercase_bytes(Bytes(e.name))
         \in {to_lowercase_bytes(Bytes(n)) : n \in processed}
   THEN [i \in 1..Len(entities) |->
            IF to_lowercase_bytes(Bytes(entities[i].name))
                  = to_lowercase_bytes(Bytes(e.name))
            THEN e ELSE entities[i]]
   ELSE Append(entities, e)

\* if !processed_names.contains(&name_lower) { ...; entities.push(e) }
push_unseen(entities, processed, e) ==
   IF name_to_lowercase(e.name) \in processed THEN entities
   ELSE Append(entities, e)

\* Variant: every entity is counted.
entity_count(entities) == Len(entities)

\* entities.iter().filter(|e| e.relationship_hint.is_some()).count()
relationship_count(entities) ==
   Cardinality({i \in 1..Len(entities) : is_some(entities[i].relationship_hint)})

\* ------------------------------------------------------------------------
\* The exported operations (src/src/lib.rs) as a state machine
\* ------------------------------------------------------------------------

(***************************************************************************)
(* op and text are the operation the host calls and the text it passes;    *)
(* the host may repeat the call.  pc is the position of the call in        *)
(* progress, rule the place in the catalog of the rule processed last,     *)
(* from the token position at which captures_iter goes on.  matches,       *)
(* keywords, entities and processed_names are the locals of the same name. *)
(* result is the value the last call returned and prev the one the call    *)
(* before it returned (the timing field left out).  malformed is the rule  *)
(* whose pattern Regex::new rejects, if there is one.  serde_error is      *)
(* whether serde_json::to_string returns Err.  panic is the reason why the *)
(* call aborted, or "none".                                                *)
(***************************************************************************)
VARIABLES op, text, pc, rule, from, matches, keywords, entities,
          processed_names, result, prev, malformed, serde_error, panic

vars == <<op, text, pc, rule, from, matches, keywords, entities,
          processed_names, result, prev, malformed, serde_error, panic>>

NoResult == [kind |-> "none"]

NoRule == [catalog |-> "none", rule |-> 0]

\* Whether Regex::new returns Ok for rule k of the catalog.
Compiles(catalog, k) == malformed /= [catalog |-> catalog, rule |-> k]

\* The texts of at most MaxWords tokens over an alphabet.
Texts(alphabet) == UNION {[1..n -> alphabet] : n \in 0..MaxWords}

Alphabet(o) ==
   IF o = "detect" THEN DetectAlphabet
   ELSE IF o = "keywords" THEN KeywordAlphabet
   ELSE EntityAlphabet

\* The state of the locals before any call.
NoCall ==
   /\ pc = "idle"
   /\ rule = 0
   /\ from = 1
   /\ matches = <<>>
   /\ keywords = <<>>
   /\ entities = <<>>
   /\ processed_names = {}
   /\ result = NoResult
   /\ prev = NoResult
   /\ panic = "none"

Init ==
   /\ op \in {"detect", "keywords", "entities"}
   /\ text \in Texts(Alphabet(op))
   /\ malformed = NoRule
   /\ serde_error = FALSE
   /\ NoCall

\* Whether some text over the words can hold a match of the pattern: every
\* group that has to match has an alternative spelled with the words.
CanOccur(pattern, words, ci) ==
   \A e \in 1..Len(pattern) :
      /\ pattern[e].kind = "set" =>
            \E w \in words :
               (IF ci THEN to_lowercase(w) ELSE w) \in pattern[e].words
      /\ pattern[e].kind = "one" =>
         \E a \in 1..Len(pattern[e].alts) :
            \A t \in 1..Len(pattern[e].alts[a]) :
               \/ pattern[e].alts[a][t] \in {AnyWord, CapWord}
               \/ \E w \in words :
                     (IF ci THEN to_lowercase(w) ELSE w) = pattern[e].alts[a][t]

\* The rules of each catalog that can occur in a text of the model; no
\* other rule matches any of them.
DetectionRulesInReach ==
   {k \in 1..Len(all_patterns) :
       CanOccur(all_patterns[k].pattern, DetectAlphabet, TRUE)}

KeywordPatternsInReach ==
   {k \in 1..Len(keyword_patterns) :
       CanOccur(keyword_patterns[k], KeywordAlphabet, FALSE)}

RelationshipRulesInReach ==
   {k \in 1..Len(RELATIONSHIP_PATTERNS) :
       CanOccur(RELATIONSHIP_PATTERNS[k].pattern, EntityAlphabet, TRUE)}

\* The first rule after place k of a catalog that compiles and occurs in
\* the text, or 0.  patterns[i] is the pattern of rule i.
NextRule(catalog, patterns, reach, toks, k, ci) ==
   LET occurs == {j \in reach :
                     /\ j > k
                     /\ Compiles(catalog, j)
                     /\ FindFrom(patterns[j], toks, 1, ci)[1] /= 0}
   IN  IF occurs = {} THEN 0
       ELSE CHOOSE j \in occurs : \A i \in occurs : j <= i

DetectionPatterns == [i \in 1..Len(all_patterns) |-> all_patterns[i].pattern]

RelationshipPatterns ==
   [i \in 1..Len(RELATIONSHIP_PATTERNS) |-> RELATIONSHIP_PATTERNS[i].pattern]

NextDetectionRule ==
   NextRule("detection", DetectionPatterns, DetectionRulesInReach, text, rule,
            TRUE)

NextKeywordPattern ==
   NextRule("keywords", keyword_patterns, KeywordPatternsInReach, text, rule,
            FALSE)

\* Variant: the scan of the catalog stops at the first rule that occurs.
first_hit_only ==
   IF rule /= 0 THEN 0
   ELSE NextRule("relationship", RelationshipPatterns, RelationshipRulesInReach,
                 text, rule, TRUE)

NextRelationshipRule ==
   NextRule("relationship", RelationshipPatterns, RelationshipRulesInReach,
            text, rule, TRUE)

\* The threshold for detection, 0.3.
Threshold == Rat(3, 10)

\* Variant: the threshold is 0.5.
detected_above_half(score) == RatLess(Rat(1, 2), score)

\* score > 0.3
detected(score) == RatLess(Threshold, score)

\* The start of a call: the locals are created.
StartCall(position) ==
   /\ pc = "idle"
   /\ pc' = position
   /\ rule' = 0
   /\ from' = 1
   /\ matches' = <<>>
   /\ keywords' = <<>>
   /\ entities' = <<>>
   /\ processed_names' = new_processed_names(processed_names)
   /\ prev' = result
   /\ UNCHANGED <<op, text, result, malformed, serde_error, panic>>

\* start.elapsed().as_micros(): the time the call measured.  No operation
\* reads it, and the model keeps no value for it.
Elapsed == "elapsed"

\* serde_json::to_string(&value): Ok(json), or Err.  The record stands for
\* its JSON text.
to_string(value) == IF serde_error THEN None ELSE Some(value)

\* The results the operations return when to_string returns Err.
detect_sentinel ==
   [kind |-> "detect", detected |-> FALSE, confidence |-> Rat(0, 1),
    patterns |-> <<>>, score |-> Rat(0, 1)]

keywords_sentinel == [kind |-> "keywords", keywords |-> <<>>]

entities_sentinel ==
   [kind |-> "entities", entities |-> <<>>, relationship_count |-> 0,
    processing_time_us |-> 0]

\* Variant: the error is returned in place of the sentinel.
error_returned(json, sentinel) ==
   IF is_some(json) THEN json[1] ELSE [kind |-> "error"]

\* match json { Ok(json) => json, Err(_) => sentinel }
ok_or(json, sentinel) == IF is_some(json) THEN json[1] ELSE sentinel

\* detectPatterns is called.
detect_high_entropy_patterns ==
   /\ op = "detect"
   /\ StartCall("match_patterns")

\* One turn of the loop of match_patterns for a rule that occurs in the
\* text (a rule that does not compile or does not occur pushes nothing).
match_patterns_rule ==
   /\ pc = "match_patterns"
   /\ \E k \in {NextDetectionRule} :
         /\ k /= 0
         /\ rule' = k
         /\ matches' = matches \o RuleMatches(all_patterns[k], text)
   /\ UNCHANGED <<op, text, pc, from, keywords, entities, processed_names,
                  result, prev, malformed, serde_error, panic>>

\* The catalog is through: the score is computed and the result returned.
detect_return ==
   /\ pc = "match_patterns"
   /\ NextDetectionRule = 0
   /\ LET score == calculate_text_score(matches)
      IN  result' = ok_or(to_string([kind |-> "detect",
                                     detected |-> detected(score),
                                     confidence |-> RatMin(score, Rat(1, 1)),
                                     patterns |-> matches,
                                     score |-> score]),
                          detect_sentinel)
   /\ pc' = "idle"
   /\ UNCHANGED <<op, text, rule, from, matches, keywords, entities,
                  processed_names, prev, malformed, serde_error, panic>>

\* extractKeywords is called.
extract_keywords ==
   /\ op = "keywords"
   /\ StartCall("keyword_patterns")

\* One turn of the loop over keyword_patterns for a pattern that occurs.
extract_keywords_pattern ==
   /\ pc = "keyword_patterns"
   /\ \E k \in {NextKeywordPattern} :
         /\ k /= 0
         /\ rule' = k
         /\ keywords' = keywords \o PatternKeywords(keyword_patterns[k], text)
   /\ UNCHANGED <<op, text, pc, from, matches, entities, processed_names,
                  result, prev, malformed, serde_error, panic>>

\* The patterns are through: keywords.sort(); keywords.dedup(); return.
extract_keywords_return ==
   /\ pc = "keyword_patterns"
   /\ NextKeywordPattern = 0
   /\ keywords' = dedup(sort(keywords))
   /\ result' = ok_or(to_string([kind |-> "keywords", keywords |-> keywords']),
                    keywords_sentinel)
   /\ pc' = "idle"
   /\ UNCHANGED <<op, text, rule, from, matches, entities, processed_names,
                  prev, malformed, serde_error, panic>>

\* The call aborts: the panic unwinds into the host, nothing is returned.
Abort(reason) ==
   /\ pc' = "panicked"
   /\ panic' = reason

\* extractPeopleEntities is called.  The first use of RELATIONSHIP_PATTERNS
\* builds the catalog with Regex::new(..).unwrap() for every rule.
extract_people_entities ==
   /\ op = "entities"
   /\ IF \A k \in 1..Len(RELATIONSHIP_PATTERNS) : Compiles("relationship", k)
      THEN StartCall("extract_entities")
      ELSE /\ pc = "idle"
           /\ Abort("unwrap")
           /\ UNCHANGED <<op, text, rule, from, matches, keywords, entities,
                          processed_names, result, prev, malformed,
                  serde_error>>

\* What the first loop does for the match mat of the rule rp: the context
\* is sliced, the name resolved, and the entity pushed unless its name was
\* seen.
relationship_match(rp, mat, w) ==
   IF ~SliceOk(Bytes(text), w.context_start, w.context_end)
   THEN /\ Abort("slice")
        /\ UNCHANGED <<entities, processed_names>>
   ELSE \E e \in {relationship_entity(rp, text, mat, w)} :
           /\ entities' = push_unseen(entities, processed_names, e)
           /\ processed_names' =
                 processed_names \cup {name_to_lowercase(e.name)}
           /\ UNCHANGED <<pc, panic>>

\* Variant: a rule is taken at its last occurrence in the text.
last_occurrence(rp, toks) ==
   LET all == FindIter(rp.pattern, toks, 1, TRUE)
   IN  IF all = <<>> THEN <<0, 0>> ELSE all[Len(all)]

\* rp.pattern.find(text): the leftmost match of the rule rp in the text.
first_occurrence(rp, toks) == FindFrom(rp.pattern, toks, 1, TRUE)

\* One turn of the first loop of extract_entities for a rule that occurs
\* in the text.
extract_entities_rule ==
   /\ pc = "extract_entities"
   /\ \E k \in {NextRelationshipRule} :
         /\ k /= 0
         /\ rule' = k
         /\ \E mat \in {first_occurrence(RELATIONSHIP_PATTERNS[k], text)} :
               relationship_match(
                  RELATIONSHIP_PATTERNS[k], mat,
                  ContextWindow(text, MatchStart(text, mat), MatchEnd(text, mat),
                                RelationshipWindow))
   /\ UNCHANGED <<op, text, from, matches, keywords, result, prev, malformed,
                  serde_error>>

\* What the second loop does for a capture: a valid name not seen yet gets
\* its context sliced and its entity pushed.
name_capture(cap, name, w) ==
   IF name_to_lowercase(name) \in processed_names \/ ~is_valid_name(name)
   THEN UNCHANGED <<pc, panic, entities, processed_names>>
   ELSE /\ processed_names' = processed_names \cup {name_to_lowercase(name)}
        /\ IF ~SliceOk(Bytes(text), w.context_start, w.context_end)
           THEN /\ Abort("slice")
                /\ UNCHANGED entities
           ELSE /\ entities' = push_unseen(entities, processed_names,
                                           name_entity(text, cap, w))
                /\ UNCHANGED <<pc, panic>>

\* One turn of the second loop for the next capture of NAME_THEN_RELATION.
extract_entities_capture ==
   /\ pc = "extract_entities"
   /\ NextRelationshipRule = 0
   /\ \E cap \in {NextCapture(text, from)} :
         /\ cap /= NoCapture
         /\ from' = cap.next
         /\ name_capture(cap, CaptureName(text, cap),
                         NameContextWindow(text, cap))
   /\ UNCHANGED <<op, text, rule, matches, keywords, result, prev, malformed,
                  serde_error>>

\* Both loops are through: the relationships are counted, the result
\* returned.
extract_entities_return ==
   /\ pc = "extract_entities"
   /\ NextRelationshipRule = 0
   /\ NextCapture(text, from) = NoCapture
   /\ result' = ok_or(to_string([kind |-> "entities",
                                 entities |-> entities,
                                 relationship_count |->
                                    relationship_count(entities),
                                 processing_time_us |-> Elapsed]),
                       entities_sentinel)
   /\ pc' = "idle"
   /\ UNCHANGED <<op, text, rule, from, matches, keywords, entities,
                  processed_names, prev, malformed, serde_error, panic>>

Next ==
   \/ detect_high_entropy_patterns
   \/ match_patterns_rule
   \/ detect_return
   \/ extract_keywords
   \/ extract_keywords_pattern
   \/ extract_keywords_return
   \/ extract_people_entities
   \/ extract_entities_rule
   \/ extract_entities_capture
   \/ extract_entities_return

Spec == Init /\ [][Next]_vars

\* ------------------------------------------------------------------------
\* The score aggregator on its own
\* ------------------------------------------------------------------------

\* A match of weight w.  Its other fields are those of one of two matches
\* the matcher can produce: "You are lazy" at byte 0 for a rule of high
\* severity, or "it" at byte 8 for a rule of medium severity.
ScoreMatch(w, high) ==
   [pattern_type |-> IF high THEN "character_judgment" ELSE "objectification",
    match_text |-> IF high THEN Bytes(<<"You", "are", "lazy">>)
                   ELSE Bytes(<<"it">>),
    position |-> IF high THEN 0 ELSE 8,
    severity |-> IF high THEN "high" ELSE "medium",
    weight |-> w]

\* The lists of at most MaxMatches matches with weights of the catalog.
MatchLists ==
   UNION {[1..n -> {ScoreMatch(w, h) : w \in CatalogWeights, h \in BOOLEAN}] :
             n \in 0..MaxMatches}

InitScore ==
   /\ op = "score"
   /\ text = <<>>
   /\ malformed = NoRule
   /\ serde_error = FALSE
   /\ pc = "idle"
   /\ rule = 0
   /\ from = 1
   /\ matches \in MatchLists
   /\ keywords = <<>>
   /\ entities = <<>>
   /\ processed_names = {}
   /\ result = NoResult
   /\ prev = NoResult
   /\ panic = "none"

\* calculate_text_score is called with the list.
score_call ==
   /\ op = "score"
   /\ pc = "idle"
   /\ result' = [kind |-> "score", score |-> calculate_text_score(matches)]
   /\ prev' = result
   /\ UNCHANGED <<op, text, pc, rule, from, matches, keywords, entities,
                  processed_names, malformed, serde_error, panic>>

\* calculate_text_score is called with the list and one further match, as
\* after a call of the matcher that found one occurrence more.
score_further_match ==
   /\ op = "score"
   /\ pc = "idle"
   /\ result.kind = "score"
   /\ Len(matches) < MaxMatches
   /\ \E w \in CatalogWeights, h \in BOOLEAN :
         matches' = Append(matches, ScoreMatch(w, h))
   /\ result' = [kind |-> "score", score |-> calculate_text_score(matches')]
   /\ prev' = result
   /\ UNCHANGED <<op, text, pc, rule, from, keywords, entities,
                  processed_names, malformed, serde_error, panic>>

NextScore ==
   \/ score_call
   \/ score_further_match

SpecScore == InitScore /\ [][NextScore]_vars

\* ------------------------------------------------------------------------
\* A catalog with a rule that does not compile
\* ------------------------------------------------------------------------

\* The rules of the catalog the operation reads, one of which may be the
\* malformed one.
MalformedRules(o) ==
   IF o = "detect"
   THEN {[catalog |-> "detection", rule |-> k] : k \in DetectionRulesInReach}
   ELSE IF o = "keywords"
   THEN {[catalog |-> "keywords", rule |-> k] : k \in KeywordPatternsInReach}
   ELSE {[catalog |-> "relationship", rule |-> k] :
            k \in RelationshipRulesInReach}

InitMalformed ==
   /\ op \in {"detect", "keywords", "entities"}
   /\ text \in Texts(Alphabet(op))
   /\ malformed \in MalformedRules(op) \cup {NoRule}
   /\ serde_error = FALSE
   /\ NoCall

SpecMalformed == InitMalformed /\ [][Next]_vars

\* ------------------------------------------------------------------------
\* Pronoun detection on its own
\* ------------------------------------------------------------------------

\* The words of the context windows passed to detect_pronouns: words of the
\* three families, one with a capital, and a word of none.
PronounAlphabet == {"he", "him", "She", "her", "they", "it"}

InitPronouns ==
   /\ op = "pronouns"
   /\ text \in Texts(PronounAlphabet)
   /\ malformed = NoRule
   /\ serde_error = FALSE
   /\ NoCall

\* detect_pronouns is called with the text as context.
detect_pronouns_call ==
   /\ op = "pronouns"
   /\ pc = "idle"
   /\ result' = [kind |-> "pronouns", pronouns |-> detect_pronouns(Bytes(text))]
   /\ prev' = result
   /\ UNCHANGED <<op, text, pc, rule, from, matches, keywords, entities,
                  processed_names, malformed, serde_error, panic>>

NextPronouns == detect_pronouns_call

SpecPronouns == InitPronouns /\ [][NextPronouns]_vars

\* ------------------------------------------------------------------------
\* Sentiment detection on its own
\* ------------------------------------------------------------------------

\* The words of the context windows passed to detect_sentiment: two words
\* of the positive lexicon, one with a capital, two of the negative one,
\* and a word of neither.
SentimentAlphabet == {"love", "Great", "hate", "sad", "it"}

InitSentiment ==
   /\ op = "sentiment"
   /\ text \in Texts(SentimentAlphabet)
   /\ malformed = NoRule
   /\ serde_error = FALSE
   /\ NoCall

\* detect_sentiment is called with the text as context.
detect_sentiment_call ==
   /\ op = "sentiment"
   /\ pc = "idle"
   /\ result' = [kind |-> "sentiment",
                 sentiment |-> detect_sentiment(Bytes(text))]
   /\ prev' = result
   /\ UNCHANGED <<op, text, pc, rule, from, matches, keywords, entities,
                  processed_names, malformed, serde_error, panic>>

NextSentiment == detect_sentiment_call

SpecSentiment == InitSentiment /\ [][NextSentiment]_vars

\* ------------------------------------------------------------------------
\* Names with a word of the stoplist
\* ------------------------------------------------------------------------

\* The tokens of the texts in which a capitalized word of EXCLUDED_WORDS
\* stands before or after a relationship phrase.
NameAlphabet == {"my", "mom", "My", "Monday"}

InitNames ==
   /\ op = "entities"
   /\ text \in Texts(NameAlphabet)
   /\ malformed = NoRule
   /\ serde_error = FALSE
   /\ NoCall

NextEntities ==
   \/ extract_people_entities
   \/ extract_entities_rule
   \/ extract_entities_capture
   \/ extract_entities_return

SpecNames == InitNames /\ [][NextEntities]_vars

\* ------------------------------------------------------------------------
\* Serialization that fails
\* ------------------------------------------------------------------------

InitSerialization ==
   /\ op \in {"detect", "keywords", "entities"}
   /\ text \in Texts(Alphabet(op))
   /\ malformed = NoRule
   /\ serde_error = TRUE
   /\ NoCall

SpecSerialization == InitSerialization /\ [][Next]_vars

\* ------------------------------------------------------------------------
\* Properties
\* ------------------------------------------------------------------------

\* C1: for every list of matches passed to calculate_text_score the score
\* returned lies in [0, 1], and for the empty list it is exactly 0.
C1_ScoreInUnitInterval ==
   result.kind = "score" =>
      /\ result.score.den > 0
      /\ 0 <= result.score.num
      /\ result.score.num <= result.score.den
      /\ (matches = <<>> => result.score.num = 0)

\* C1, witness: a list whose weights sum to more than the damped count has
\* been scored, and the score is the cap.
C1_Witness ==
   /\ result.kind = "score"
   /\ total_weight(matches) > 10 + Len(matches)
   /\ result.score.num = result.score.den

\* C2: for every input text detectPatterns returns detected = true if and
\* only if the score it returns is strictly greater than 0.3.
C2_DetectedIffAboveThreshold ==
   result.kind = "detect" =>
      (result.detected <=> result.score.num * 10 > 3 * result.score.den)

\* C2, witness: a result that is detected with a score between 0.3 and 0.5.
C2_Witness ==
   /\ result.kind = "detect"
   /\ result.detected
   /\ result.score.num * 10 > 3 * result.score.den
   /\ result.score.num * 2 < result.score.den

\* C3: extractPeopleEntities and detectPatterns return a result for every
\* input string, multi-byte characters near a match included: no call
\* aborts on the slice of its context window.
C3_NoCallAborts == panic /= "slice"

\* C4: no two entities of a result of extractPeopleEntities have names that
\* are equal when compared without regard to case.
C4_NamesUniqueIgnoringCase ==
   /\ \A i, j \in 1..Len(entities) :
         i /= j => to_lowercase_bytes(Bytes(entities[i].name))
                      /= to_lowercase_bytes(Bytes(entities[j].name))
   /\ result.kind = "entities" =>
         \A i, j \in 1..Len(result.entities) :
            i /= j => to_lowercase_bytes(Bytes(result.entities[i].name))
                         /= to_lowercase_bytes(Bytes(result.entities[j].name))

\* C4, witness: the text "Papa, my papa" has been processed; both passes
\* find the name, once with a capital, and the result has it once.
C4_Witness ==
   /\ text = <<"Papa", ",", "my", "papa">>
   /\ result.kind = "entities"
   /\ Len(result.entities) = 1

\* C5: within a call the entities emitted so far are never changed or
\* removed, and a step emits at most one entity, whose name differs from
\* the name of every entity emitted before when compared without regard to
\* case: of the candidates with one name the first wins, in both passes.
C5_FirstOccurrenceWins ==
   [][pc = "extract_entities" =>
         /\ Len(entities') >= Len(entities)
         /\ Len(entities') <= Len(entities) + 1
         /\ SubSeq(entities', 1, Len(entities)) = entities
         /\ Len(entities') = Len(entities) + 1 =>
               \A i \in 1..Len(entities) :
                  to_lowercase_bytes(Bytes(entities[i].name))
                     /= to_lowercase_bytes(Bytes(entities'[Len(entities')].name))
     ]_vars

\* C5, witness: on "Papa, my papa" the second pass has gone over the
\* capture of "Papa" after the first pass emitted "papa", and the entity of
\* the first pass is the only one.
C5_Witness ==
   /\ text = <<"Papa", ",", "my", "papa">>
   /\ pc = "extract_entities"
   /\ from > 1
   /\ Len(entities) = 1
   /\ entities[1].confidence = RelationshipConfidence
   /\ entities[1].relationship_hint = Some("father")

\* C6: relationshipCount is the number of the entities of the result whose
\* relationshipHint is present.
C6_CountsEntitiesWithHint ==
   result.kind = "entities" =>
      result.relationship_count =
         Cardinality({i \in 1..Len(result.entities) :
                         result.entities[i].relationship_hint /= None})

\* C6, witness: a result with an entity that has no hint, and so with a
\* count below the number of its entities.
C6_Witness ==
   /\ result.kind = "entities"
   /\ \E i \in 1..Len(result.entities) :
         result.entities[i].relationship_hint = None
   /\ result.relationship_count < Len(result.entities)

\* C7: the list extractKeywords returns is in ascending order and holds no
\* string twice: every keyword is less than the next.
C7_KeywordsAscending ==
   result.kind = "keywords" =>
      \A i \in 1..(Len(result.keywords) - 1) :
         StrLess(result.keywords[i], result.keywords[i + 1])

\* C7, witness: "you lazy you" has been processed; the pushes were you,
\* lazy, you and the result is lazy, you.
C7_Witness ==
   /\ text = <<"you", "lazy", "you">>
   /\ result.kind = "keywords"
   /\ Len(result.keywords) = 2

\* C8: a call with the same text returns what the call before it returned.
C8_SameTextSameResult == prev /= NoResult => result = prev

\* C8, witness: extractPeopleEntities has returned twice, with entities.
C8_Witness ==
   /\ prev.kind = "entities"
   /\ pc = "idle"
   /\ Len(prev.entities) >= 1
   /\ processed_names /= {}

\* C9: on the empty text detectPatterns returns detected = false,
\* confidence = 0, score = 0 and no patterns, extractKeywords the empty
\* list, extractPeopleEntities no entities and relationshipCount = 0, and
\* no call aborts.
C9_EmptyText ==
   text = <<>> =>
      /\ panic = "none"
      /\ result.kind = "detect" =>
            /\ ~result.detected
            /\ result.confidence.num = 0
            /\ result.score.num = 0
            /\ result.patterns = <<>>
      /\ result.kind = "keywords" => result.keywords = <<>>
      /\ result.kind = "entities" =>
            /\ result.entities = <<>>
            /\ result.relationship_count = 0

\* C9, witness: detectPatterns has returned for the empty text.
C9_Witness ==
   /\ text = <<>>
   /\ result.kind = "detect"

\* C10: a rule whose pattern does not compile never makes a call abort.
C10_MalformedRuleNeverAborts == malformed /= NoRule => panic /= "unwrap"

\* C11: when the serialization of a result fails, detectPatterns returns
\* detected false, confidence 0, no patterns and score 0, extractKeywords
\* the empty list, extractPeopleEntities no entities, relationshipCount 0
\* and processingTimeUs 0; the failure never makes the call abort.
C11_SentinelOnSerializationFailure ==
   serde_error =>
      /\ panic /= "serde"
      /\ result.kind = "none" \/ result.kind = op
      /\ result.kind = "detect" =>
            /\ result.detected = FALSE
            /\ result.confidence = Rat(0, 1)
            /\ result.patterns = <<>>
            /\ result.score = Rat(0, 1)
      /\ result.kind = "keywords" => result.keywords = <<>>
      /\ result.kind = "entities" =>
            /\ result.entities = <<>>
            /\ result.relationship_count = 0
            /\ result.processing_time_us = 0

\* C11, witness: the serialization failed in a call of extractPeopleEntities
\* that had found an entity, and the sentinel was returned.
C11_Witness ==
   /\ serde_error
   /\ pc = "idle"
   /\ entities /= <<>>
   /\ result = entities_sentinel

\* C12: every relationship rule that matches the text has an entity with its
\* tag as relationshipHint in the result, unless the name resolved for it
\* was in the dedup set already, that is, is the name of another entity of
\* the result; a text with a "my mom" and a "my papa" phrase, neither
\* followed by a name, yields an entity for each.
C12_EntityForEveryMatchingRule ==
   result.kind = "entities" =>
      \A k \in RelationshipRulesInReach :
         \A mat \in {FindFrom(RELATIONSHIP_PATTERNS[k].pattern, text, 1, TRUE)} :
            mat[1] /= 0 =>
               \/ \E i \in 1..Len(result.entities) :
                     result.entities[i].relationship_hint
                        = Some(RELATIONSHIP_PATTERNS[k].relationship)
               \/ \E i \in 1..Len(result.entities) :
                     /\ result.entities[i].relationship_hint
                           /= Some(RELATIONSHIP_PATTERNS[k].relationship)
                     /\ name_to_lowercase(result.entities[i].name)
                           = name_to_lowercase(
                                relationship_name(
                                   text, mat,
                                   ContextWindow(text, MatchStart(text, mat),
                                                 MatchEnd(text, mat),
                                                 RelationshipWindow)))

\* C12, witness: "my mom my papa" has been processed, and the result has an
\* entity with the hint mother and one with the hint father.
C12_Witness ==
   /\ text = <<"my", "mom", "my", "papa">>
   /\ result.kind = "entities"
   /\ \E i, j \in 1..Len(result.entities) :
         /\ result.entities[i].relationship_hint = Some("mother")
         /\ result.entities[j].relationship_hint = Some("father")

\* C13: when the first pass processes a rule whose matched phrase is
\* followed at once, or after a comma, by a capitalized candidate that
\* passes name validation and is not in the dedup set, the step emits one
\* entity: its name is the candidate, its relationshipHint the tag of the
\* rule, its confidence 0.8.
C13_NameAfterPhraseIsEntityName ==
   [][(pc = "extract_entities" /\ rule' /= rule /\ panic' = "none") =>
         \A mat \in {FindFrom(RELATIONSHIP_PATTERNS[rule'].pattern, text, 1,
                              TRUE)} :
            \A candidate \in {name_after(text, mat)} :
               (/\ is_some(candidate)
                /\ is_valid_name(candidate[1])
                /\ name_to_lowercase(candidate[1]) \notin processed_names)
               => /\ Len(entities') = Len(entities) + 1
                  /\ entities'[Len(entities')].name = candidate[1]
                  /\ entities'[Len(entities')].relationship_hint
                        = Some(RELATIONSHIP_PATTERNS[rule'].relationship)
                  /\ entities'[Len(entities')].confidence
                        = RelationshipConfidence
     ]_vars

\* C13, witness: "my papa, John" has been processed; the entity of the
\* father rule is named John.
C13_Witness ==
   /\ text = <<"my", "papa", ",", "John">>
   /\ result.kind = "entities"
   /\ Len(result.entities) = 1
   /\ result.entities[1].name = <<"John">>
   /\ result.entities[1].relationship_hint = Some("father")
   /\ result.entities[1].confidence = RelationshipConfidence

\* C14: for every occurrence in the text of a capitalized name of one or
\* two words, an optional comma, "my" and a relation word, where the name
\* passes name validation, the result has an entity with that name,
\* confidence 0.85 and the relationshipHint the lookup gives for the
\* relation word (none for an unmapped word), unless the name was in the
\* dedup set, that is, an entity emitted elsewhere bears it.  ("who is my"
\* and "who's my" do not occur in the texts of the model.)
C14_EveryNameThenRelationYieldsEntity ==
   result.kind = "entities" =>
      \A i \in 1..Len(text) : \A n \in 1..2 : \A c \in 0..1 :
         (/\ i + n + c + 1 <= Len(text)
          /\ \A j \in i..(i + n - 1) : text[j] \in CapitalizedLexemes
          /\ c = 1 => text[i + n] = ","
          /\ text[i + n + c] = "my"
          /\ IsWordToken(text[i + n + c + 1])
          /\ is_valid_name(SubSeq(text, i, i + n - 1)))
         => \E e \in 1..Len(result.entities) :
               \/ /\ result.entities[e].name = SubSeq(text, i, i + n - 1)
                  /\ result.entities[e].confidence = NameConfidence
                  /\ result.entities[e].relationship_hint
                        = infer_relationship_from_word(
                             to_lowercase(text[i + n + c + 1]))
               \/ /\ result.entities[e].position /= TokStart(text, i)
                  /\ name_to_lowercase(result.entities[e].name)
                        = name_to_lowercase(SubSeq(text, i, i + n - 1))

\* C15, as claimed: the first pass processes only the first relationship
\* rule, in catalog order, that matches the text, so a call emits at most
\* one entity of confidence 0.8, and its hint is the tag of that rule.
C15_ScanStopsAtFirstHit ==
   /\ Cardinality({i \in 1..Len(entities) :
                      entities[i].confidence = RelationshipConfidence}) <= 1
   /\ \A i \in 1..Len(entities) :
         entities[i].confidence = RelationshipConfidence =>
            \E k \in RelationshipRulesInReach :
               /\ entities[i].relationship_hint
                     = Some(RELATIONSHIP_PATTERNS[k].relationship)
               /\ FindFrom(RELATIONSHIP_PATTERNS[k].pattern, text, 1, TRUE)[1] /= 0
               /\ \A j \in RelationshipRulesInReach :
                     j < k => FindFrom(RELATIONSHIP_PATTERNS[j].pattern, text, 1,
                                       TRUE)[1] = 0

\* C15, amended: the first pass processes every relationship rule that
\* matches the text, in catalog order, each at its first occurrence.  A
\* call that returns has gone through to the last rule that matches; the
\* entities of confidence 0.8 are no more than the matching rules processed
\* so far, each has the tag of such a rule as hint and the start of that
\* rule's first match as position, and they stand in catalog order.
C15_EveryMatchingRuleAtFirstOccurrence ==
   /\ (pc = "idle" /\ result.kind = "entities") =>
         \A k \in RelationshipRulesInReach :
            FindFrom(RELATIONSHIP_PATTERNS[k].pattern, text, 1, TRUE)[1] /= 0
               => k <= rule
   /\ Cardinality({i \in 1..Len(entities) :
                      entities[i].confidence = RelationshipConfidence})
         <= Cardinality({k \in RelationshipRulesInReach :
                            /\ k <= rule
                            /\ FindFrom(RELATIONSHIP_PATTERNS[k].pattern, text,
                                        1, TRUE)[1] /= 0})
   /\ \A i \in 1..Len(entities) :
         entities[i].confidence = RelationshipConfidence =>
            \E k \in RelationshipRulesInReach :
               /\ k <= rule
               /\ entities[i].relationship_hint
                     = Some(RELATIONSHIP_PATTERNS[k].relationship)
               /\ \E mat \in {FindFrom(RELATIONSHIP_PATTERNS[k].pattern, text,
                                        1, TRUE)} :
                     /\ mat[1] /= 0
                     /\ entities[i].position = MatchStart(text, mat)
               /\ \A j \in 1..(i - 1) :
                     entities[j].confidence = RelationshipConfidence =>
                        \E h \in RelationshipRulesInReach :
                           /\ h < k
                           /\ entities[j].relationship_hint
                                 = Some(RELATIONSHIP_PATTERNS[h].relationship)

\* C15, witness: "my mom my papa" has been processed to the end; the mother
\* rule and the father rule have each emitted an entity of confidence 0.8,
\* the second at the later phrase.
C15_Witness ==
   /\ text = <<"my", "mom", "my", "papa">>
   /\ pc = "idle"
   /\ result.kind = "entities"
   /\ Len(entities) = 2
   /\ entities[1].confidence = RelationshipConfidence
   /\ entities[2].confidence = RelationshipConfidence
   /\ entities[1].position < entities[2].position

\* C16: the matches detectPatterns returns are, rule after rule in catalog
\* order, the non-overlapping occurrences of the rule in the whole text
\* from left to right.  Every match is an occurrence of one rule and
\* carries that rule's category, severity and weight; the matches of a rule
\* come after those of the rules before it, and among themselves in text
\* order without overlap; every place where a rule matches is the start of
\* a match of that rule or lies inside an earlier one; matches of different
\* rules over the same span are all kept.
C16_MatchesInDiscoveryOrder ==
   result.kind = "detect" =>
      /\ \A i \in 1..Len(result.patterns) :
            \E k \in 1..Len(all_patterns) :
               /\ result.patterns[i].pattern_type = all_patterns[k].pattern_type
               /\ result.patterns[i].severity = all_patterns[k].severity
               /\ result.patterns[i].weight = all_patterns[k].weight
               /\ \E t \in 1..Len(text) :
                     /\ TokStart(text, t) = result.patterns[i].position
                     /\ \E e \in {MatchFrom(all_patterns[k].pattern, 1, text, t,
                                             TRUE)} :
                           /\ e /= NoMatch
                           /\ result.patterns[i].match_text
                                 = MatchStr(text, <<t, e>>)
               /\ \A j \in 1..(i - 1) :
                     \E h \in 1..k :
                        /\ result.patterns[j].pattern_type
                              = all_patterns[h].pattern_type
                        /\ h = k =>
                              result.patterns[j].position
                                 + Len(result.patterns[j].match_text)
                              <= result.patterns[i].position
      /\ \A k \in 1..Len(all_patterns) :
            \A t \in 1..Len(text) :
               MatchFrom(all_patterns[k].pattern, 1, text, t, TRUE) /= NoMatch
               => \E i \in 1..Len(result.patterns) :
                     /\ result.patterns[i].pattern_type
                           = all_patterns[k].pattern_type
                     /\ result.patterns[i].position <= TokStart(text, t)
                     /\ TokStart(text, t)
                           < result.patterns[i].position
                                + Len(result.patterns[i].match_text)

\* C16, witness: "You are always lazy" has been processed: the character
\* rule and the absolute rule have each matched the whole text, and both
\* matches are in the result, in catalog order.
C16_Witness ==
   /\ text = <<"You", "are", "always", "lazy">>
   /\ result.kind = "detect"
   /\ Len(result.patterns) = 2
   /\ result.patterns[1].pattern_type = "character_judgment"
   /\ result.patterns[2].pattern_type = "absolute_statement"
   /\ result.patterns[1].position = result.patterns[2].position
   /\ result.patterns[1].match_text = result.patterns[2].match_text

\* C17: for a list of matches that is not empty the score is
\* min(1.0, totalWeight / (1 + 0.1 * matchCount)), totalWeight being the sum
\* of the weights: it is fixed by the weights and the number of the matches,
\* whatever their category, severity, position, text and order.  (With the
\* weights in tenths the quotient is totalWeight / (10 + matchCount).)
C17_ScoreIsDampedSumOfWeights ==
   (result.kind = "score" /\ matches /= <<>>) =>
      \A totalWeight \in
            {Cardinality({p \in (1..Len(matches)) \X (1..10) :
                             p[2] <= matches[p[1]].weight})} :
         IF totalWeight >= 10 + Len(matches)
         THEN result.score.num = result.score.den
         ELSE result.score.num * (10 + Len(matches))
                 = totalWeight * result.score.den

\* C17, witness: two matches that differ in category, severity, position
\* and text have been scored, and the score is below the cap.
C17_Witness ==
   /\ result.kind = "score"
   /\ Len(matches) = 2
   /\ matches[1].severity /= matches[2].severity
   /\ matches[1].position /= matches[2].position
   /\ matches[1].weight > matches[2].weight
   /\ result.score.num < result.score.den

\* C18: a candidate is accepted by name validation if and only if it has at
\* least two bytes, its first character is uppercase and its lower-case form
\* is not in the stoplist, so that a candidate such as "My Monday" is
\* rejected and never becomes the name of an entity: no name emitted on the
\* strength of the validation has a word of the stoplist in it.
C18_NoStoplistWordInName ==
   \A i \in 1..Len(entities) :
      IsUpperByte(Bytes(entities[i].name)[1]) =>
         \A j \in 1..Len(entities[i].name) :
            to_lowercase(entities[i].name[j]) \notin EXCLUDED_WORDS

C20_PronounIffStrictlyMostFrequent ==
   result.kind = "pronouns" =>
      \A he \in {Cardinality({i \in 1..Len(text) :
                                to_lowercase(text[i]) \in HE_HIM_PATTERN})} :
         \A she \in {Cardinality({i \in 1..Len(text) :
                                    to_lowercase(text[i]) \in SHE_HER_PATTERN})} :
            \A they \in {Cardinality({i \in 1..Len(text) :
                                        to_lowercase(text[i])
                                           \in THEY_THEM_PATTERN})} :
               /\ result.pronouns = Some("he/him")
                     <=> (he > 0 /\ he > she /\ he > they)
               /\ result.pronouns = Some("she/her")
                     <=> (she > 0 /\ she > he /\ she > they)

\* C20, witness: a context in which the she family occurs twice, written
\* with and without a capital, and the other families once each has been
\* processed, and "she/her" is reported.
C20_Witness ==
   /\ result.kind = "pronouns"
   /\ Len(text) = 4
   /\ Cardinality({i \in 1..4 : text[i] = "She"}) = 1
   /\ Cardinality({i \in 1..4 : text[i] = "her"}) = 1
   /\ \E i \in 1..4 : text[i] = "they"
   /\ \E i \in 1..4 : text[i] \in HE_HIM_PATTERN
   /\ result.pronouns = Some("she/her")

\* C21: with p the number of words of the positive lexicon in the context
\* and n the number of words of the negative one, detect_sentiment reports
\* positive if and only if p > n, negative if and only if n > p, mixed if
\* and only if p = n and both are nonzero, and nothing if and only if
\* p = n = 0.
C21_SentimentByCounts ==
   result.kind = "sentiment" =>
      \A p \in {Cardinality({i \in 1..Len(text) :
                               to_lowercase(text[i]) \in POSITIVE_SENTIMENT})} :
         \A n \in {Cardinality({i \in 1..Len(text) :
                                  to_lowercase(text[i])
                                     \in NEGATIVE_SENTIMENT})} :
            /\ result.sentiment = Some("positive") <=> p > n
            /\ result.sentiment = Some("negative") <=> n > p
            /\ result.sentiment = Some("mixed") <=> (p = n /\ p > 0)
            /\ result.sentiment = None <=> (p = 0 /\ n = 0)

\* C21, witness: a context with two words of each lexicon, one of them
\* written with a capital, has been processed, and mixed is reported.
C21_Witness ==
   /\ result.kind = "sentiment"
   /\ Len(text) = 4
   /\ \E i \in 1..4 : text[i] = "Great"
   /\ Cardinality({i \in 1..4 : to_lowercase(text[i]) \in POSITIVE_SENTIMENT}) = 2
   /\ Cardinality({i \in 1..4 : to_lowercase(text[i]) \in NEGATIVE_SENTIMENT}) = 2
   /\ result.sentiment = Some("mixed")

\* C22: more matches never mean a lower score: when a list of matches with
\* weights of the catalog has been scored and is scored again with one
\* further match of the catalog, the second score is greater than or equal
\* to the first.
C22_FurtherMatchNeverLowersScore ==
   (prev.kind = "score" /\ result.kind = "score") =>
      result.score.num * prev.score.den >= prev.score.num * result.score.den

\* C22, witness: two matches of weight 0.4 were scored (0.8 / 1.2), then a
\* third of weight 0.4 was added, and the score is 1.2 / 1.3.
C22_Witness ==
   /\ prev.kind = "score"
   /\ result.kind = "score"
   /\ Len(matches) = 3
   /\ \A i \in 1..3 : matches[i].weight = 4
   /\ prev.score.num * 3 = prev.score.den * 2
   /\ result.score.num * 13 = result.score.den * 12

\* C23: detectPatterns returns detected = true if and only if the matcher
\* returned at least one match, since no list of matches of the catalog that
\* is not empty scores 0.3 or less.
C23_DetectedIffAnyMatch ==
   result.kind = "detect" =>
      /\ result.detected <=> result.patterns /= <<>>
      /\ result.patterns /= <<>> =>
            result.score.num * 10 > 3 * result.score.den

\* C23, witness: a text with one match, of the lowest weight of the catalog
\* (0.4, score 0.4 / 1.1), has been processed and is detected.
C23_Witness ==
   /\ result.kind = "detect"
   /\ Len(result.patterns) = 1
   /\ result.patterns[1].weight = 4
   /\ \A w \in CatalogWeights : result.patterns[1].weight <= w
   /\ result.detected

====
